---- MODULE Spec2Model ----
(***************************************************************************)
(* A state-machine model of libarchive-rs: the Archive handle, the Entries *)
(* iterator and the Error type of src/libarchive/src/archive.rs and        *)
(* src/libarchive/src/error.rs, together with the part of the native       *)
(* archive engine (libarchive, reached through libarchive_sys) that the    *)
(* calls made by that code observe.  A single caller drives one Archive at *)
(* a time and lets go of the Entry values it kept before it constructs the *)
(* next Archive; each public operation is one action.                      *)
(***************************************************************************)
EXTENDS Integers, Sequences, FiniteSets, TLC

(***************************************************************************)
(* Bounds of the model.                                                    *)
(***************************************************************************)
\* number of native contexts the caller may allocate (open/stdin/create calls)
MaxCtx == 2
\* number of append_file calls the caller makes
MaxAppends == 1
\* length of a source file's content, in bytes
MaxLen == 1
\* number of next() calls the caller makes
MaxNext == 2
\* number of Entry values the caller keeps at a time
MaxHeld == 1

(***************************************************************************)
(* Program constants.                                                      *)
(***************************************************************************)
\* archive.rs:21  pub const DEFAULT_BLOCK_SIZE: usize = 65536
DEFAULT_BLOCK_SIZE == 65536
\* archive.rs:66, 74, 104, 139 (ffi::fix::ARCHIVE_OK) and the literal 0 of 230
ARCHIVE_OK == 0

\* Statuses other than ARCHIVE_OK that the engine reports: ARCHIVE_EOF (1),
\* ARCHIVE_WARN (-20), ARCHIVE_FATAL (-30).  The code only ever tests for
\* ARCHIVE_OK, so they all take the `_ =>` arms of archive.rs.
NonOk == {1, -20, -30}
Statuses == {ARCHIVE_OK} \cup NonOk

(***************************************************************************)
(* Inputs.                                                                 *)
(***************************************************************************)
\* A path is the byte string of an OS path.  97 is an ASCII letter, 255 is a
\* byte that never occurs in well-formed UTF-8, 0 is NUL.
Paths == {<<97>>, <<255>>, <<0>>}
\* contents of a source file: the byte strings 1, 2, .., n
Contents == {[i \in 1..n |-> i] : n \in 0..MaxLen}
\* st_blksize as reported by the metadata of a file: a u64.  `fits` is FALSE
\* for a value above usize::MAX (possible where usize is narrower than u64).
BlkSizes == {[fits |-> TRUE, val |-> v] : v \in {0, 1}}
              \cup {[fits |-> FALSE, val |-> 0]}
\* platforms the crate is built for: cfg!(unix) or not
Platforms == {"unix", "other"}
\* files the caller names: the archive file, and a path where there is no file
Targets == {"dest", "nowhere"}

Min(a, b) == IF a < b THEN a ELSE b

VARIABLES
  platform,    \* cfg!(unix) of the build
  disk,        \* the archive file: [exists, entries (pathnames)]
  ctx,         \* native contexts by id: [kind, owner, released, relBy, error]
  nctx,        \* number of contexts allocated so far
  arch,        \* the caller's Archive / Entries value
  rd,          \* engine state of the read context: what it reads, how far,
               \* and the one entry record it reuses
  held,        \* Entry values the caller holds: set of [archive, underlying, gen]
  entryLive,   \* header records allocated by archive_entry_new and not freed
  nAppend,     \* append_file calls made so far
  nNext,       \* next() calls made so far
  appended,    \* paths given to the append_file calls that returned Ok since create
  yielded,     \* pathnames of the entries next() yielded on the current Entries
  call,        \* what the most recent operation did at the engine boundary
  result,      \* what the most recent operation returned
  hist,        \* facts about the history of the current Archive / Entries
  wlog         \* the write stream of the current write-mode Archive while it
               \* can be appended to: the write requests its context
               \* received, in order, as [op, of], `of` numbering the append

vars == <<platform, disk, ctx, nctx, arch, rd, held, entryLive, nAppend,
          nNext, appended, yielded, call, result, hist, wlog>>

(***************************************************************************)
(* error.rs                                                                *)
(***************************************************************************)
\* error.rs:20-25  Error::new: kind LibArchive
ErrorNew(message) ==
  [tag |-> "Err", kind |-> "LibArchive", message |-> message, value |-> 0]

\* an Error::from_archive that reports the failure as an I/O failure
ErrorFromArchiveAsIo(archive) ==
  [tag |-> "Err", kind |-> "Io", message |-> archive.error, value |-> 0]

\* error.rs:27-34  Error::from_archive(archive): archive_error_string of the
\* context, wrapped by Error::new.  `archive` is the context as the failed
\* engine call left it.
ErrorFromArchive(archive) == ErrorNew(archive.error)

\* error.rs:49-56  From<std::io::Error>: kind Io, the I/O failure's message
ErrorFromIo(message) ==
  [tag |-> "Err", kind |-> "Io", message |-> message, value |-> 0]

\* a return value that is no Error: Ok(..), Some(..), None, a plain value
Ret(what, v) == [tag |-> what, kind |-> "none", message |-> "", value |-> v]

(***************************************************************************)
(* Conversions.                                                            *)
(***************************************************************************)
\* Path::to_string_lossy followed by as_bytes (archive.rs:26-27, 49-50,
\* 126-127): a byte of well-formed UTF-8 is kept, a byte that is not is
\* replaced by U+FFFD, whose UTF-8 encoding is EF BF BD.
RECURSIVE ToStringLossy(_)
ToStringLossy(p) ==
  IF p = <<>> THEN <<>>
  ELSE (IF Head(p) < 128 THEN <<Head(p)>> ELSE <<239, 191, 189>>)
         \o ToStringLossy(Tail(p))

\* CString::new(bytes) is Err when the bytes contain NUL; .unwrap() then panics
CStringNewFails(bytes) == \E i \in 1..Len(bytes) : bytes[i] = 0

\* block_size.try_into().unwrap_or(DEFAULT_BLOCK_SIZE)  (archive.rs:33, 146)
TryIntoUsize(blk) == IF blk.fits THEN blk.val ELSE DEFAULT_BLOCK_SIZE

\* archive.rs:29-36 and 143-149: the block size taken from file metadata
BlockSizeOf(plat, blk) ==
  IF plat = "unix" THEN TryIntoUsize(blk) ELSE DEFAULT_BLOCK_SIZE

(***************************************************************************)
(* Initial state: no Archive has been constructed, the archive file does   *)
(* not exist, the engine has allocated nothing.                            *)
(***************************************************************************)
NoCtx == [kind |-> "none", owner |-> "none", released |-> 0, relBy |-> "none",
          error |-> ""]
NoArch == [state |-> "none", underlying |-> 0, block_size |-> 0,
           close_read |-> FALSE, current |-> 0]
NoRd == [from |-> "none", entries |-> <<>>, pos |-> 0, gen |-> 0,
         fatal |-> FALSE, record |-> <<>>]
NoCall == [op |-> "none", onKind |-> "none", afterRelease |-> FALSE,
           exists |-> TRUE,
           hdrWrites |-> 0, chunks |-> <<>>, wdFailed |-> FALSE,
           src |-> <<>>, startPos |-> 0, endPos |-> 0, bufSize |-> 0,
           allocated |-> 0, freed |-> 0, status |-> 0,
           failedRead |-> 0, ioError |-> "", steps |-> <<>>,
           entryArchive |-> 0, entryUnderlying |-> 0,
           stale |-> FALSE, dangling |-> FALSE]
NoHist == [sawNone |-> FALSE, someAfterNone |-> FALSE, readFault |-> FALSE]

Init ==
  /\ platform \in Platforms
  /\ disk = [exists |-> FALSE, entries |-> <<>>]
  /\ ctx = [i \in 1..MaxCtx |-> NoCtx]
  /\ nctx = 0
  /\ arch = NoArch
  /\ rd = NoRd
  /\ held = {}
  /\ entryLive = 0
  /\ nAppend = 0
  /\ nNext = 0
  /\ appended = <<>>
  /\ yielded = <<>>
  /\ call = NoCall
  /\ result = Ret("none", 0)
  /\ hist = NoHist
  /\ wlog = <<>>

(***************************************************************************)
(* Archive::open, Archive::stdin, Archive::create                          *)
(***************************************************************************)
\* the diagnostic string the engine leaves in a context of the given kind
\* when a call on it reports a status other than ARCHIVE_OK;
\* archive_error_string reads it (error.rs:29).  Its wording is the
\* engine's: only whose string it is matters here.
Diagnostic(kind) ==
  IF kind = "read" THEN "read context diagnostic"
  ELSE "write context diagnostic"

FileExists(target) == target = "dest" /\ disk.exists

\* archive.rs:89-117  Archive::open_filename(path, block_size), reading a
\* source that holds `es` when it exists.
OpenFilename(op, exists, es, block_size) ==
  \E allocOk \in BOOLEAN :
  \E st \in IF allocOk THEN {x \in Statuses : x = ARCHIVE_OK => exists}
            ELSE {ARCHIVE_OK} :
    /\ IF ~allocOk
       THEN \* archive_read_new returned null (96-98)
            /\ result' = ErrorNew("archive allocation error")
            /\ call' = [NoCall EXCEPT !.op = op, !.exists = exists,
                                      !.steps = <<"archive_read_new">>]
            /\ UNCHANGED <<ctx, nctx, arch, rd>>
       ELSE LET id == nctx + 1 IN
            /\ nctx' = id
            /\ call' = [NoCall EXCEPT !.op = op, !.onKind = "read", !.status = st,
                                      !.exists = exists,
                                      !.steps = <<"archive_read_new",
                                                  "archive_read_support_filter_all",
                                                  "archive_read_support_format_all",
                                                  "archive_read_open_filename">>]
            /\ IF st = ARCHIVE_OK
               THEN /\ ctx' = [ctx EXCEPT ![id] = [NoCtx EXCEPT !.kind = "read",
                                                               !.owner = "live"]]
                    /\ arch' = [state |-> "archive", underlying |-> id,
                                block_size |-> block_size, close_read |-> TRUE,
                                current |-> 0]
                    /\ rd' = [NoRd EXCEPT !.from = op, !.entries = es]
                    /\ result' = Ret("Ok", 0)
               ELSE LET failed == [NoCtx EXCEPT
                                     !.kind = "read",
                                     !.error = Diagnostic("read")]
                    IN
                    /\ ctx' = [ctx EXCEPT ![id] = failed]
                    /\ result' = ErrorFromArchive(failed)
                    /\ UNCHANGED <<arch, rd>>
    /\ yielded' = <<>> /\ hist' = NoHist
    /\ UNCHANGED <<platform, disk, held, entryLive, appended, nAppend, nNext,
                   wlog>>

\* archive.rs:23-39  Archive::open(path)
Open ==
  /\ arch.state = "none" /\ held = {}
  /\ nctx < MaxCtx
  /\ \E target \in Targets :
       IF platform = "unix" /\ ~FileExists(target)
       THEN \* fs::metadata(path)? fails (31)
            /\ result' = ErrorFromIo("No such file or directory")
            /\ call' = [NoCall EXCEPT !.op = "open", !.exists = FALSE]
            /\ yielded' = <<>> /\ hist' = NoHist
            /\ UNCHANGED <<platform, disk, ctx, nctx, arch, rd, held, entryLive,
                           appended, nAppend, nNext, wlog>>
       ELSE \E block_size \in {BlockSizeOf(platform, blk) : blk \in BlkSizes} :
              OpenFilename("open", FileExists(target), disk.entries, block_size)

\* archive.rs:41-43  Archive::stdin(): the standard input holds some archive
Stdin ==
  /\ arch.state = "none" /\ held = {}
  /\ nctx < MaxCtx
  /\ \E es \in {<<>>, <<<<97>>, <<98>>>>} :
       OpenFilename("stdin", TRUE, es, DEFAULT_BLOCK_SIZE)

\* archive.rs:45-87  Archive::create(path)
Create ==
  /\ arch.state = "none" /\ held = {}
  /\ nctx < MaxCtx
  /\ \E allocOk \in BOOLEAN :
     \E extSt \in IF allocOk THEN Statuses ELSE {ARCHIVE_OK} :
     \E openSt \in IF extSt = ARCHIVE_OK /\ allocOk THEN Statuses
                   ELSE {ARCHIVE_OK} :
       IF ~allocOk
       THEN /\ result' = ErrorNew("archive allocation error")
            /\ call' = [NoCall EXCEPT !.op = "create",
                                      !.steps = <<"archive_write_new">>]
            /\ UNCHANGED <<ctx, nctx, arch, disk, appended>>
       ELSE LET id == nctx + 1 IN
            /\ nctx' = id
            /\ IF extSt # ARCHIVE_OK
               THEN LET failed == [NoCtx EXCEPT
                                     !.kind = "write",
                                     !.error = Diagnostic("write")]
                    IN
                    /\ ctx' = [ctx EXCEPT ![id] = failed]
                    /\ result' = ErrorFromArchive(failed)
                    /\ call' = [NoCall EXCEPT
                                 !.op = "create", !.onKind = "write",
                                 !.status = extSt,
                                 !.steps = <<"archive_write_new",
                                             "archive_write_set_format_filter_by_ext">>]
                    /\ UNCHANGED <<arch, disk, appended>>
               ELSE IF openSt # ARCHIVE_OK
               THEN LET failed == [NoCtx EXCEPT
                                     !.kind = "write",
                                     !.error = Diagnostic("write")]
                    IN
                    /\ ctx' = [ctx EXCEPT ![id] = failed]
                    /\ result' = ErrorFromArchive(failed)
                    /\ call' = [NoCall EXCEPT
                                 !.op = "create", !.onKind = "write",
                                 !.status = openSt,
                                 !.steps = <<"archive_write_new",
                                             "archive_write_set_format_filter_by_ext",
                                             "archive_write_open_filename">>]
                    /\ UNCHANGED <<arch, disk, appended>>
               ELSE /\ ctx' = [ctx EXCEPT ![id] = [NoCtx EXCEPT !.kind = "write",
                                                               !.owner = "live"]]
                    /\ arch' = [state |-> "archive", underlying |-> id,
                                block_size |-> DEFAULT_BLOCK_SIZE,
                                close_read |-> FALSE, current |-> 0]
                    /\ disk' = [exists |-> TRUE, entries |-> <<>>]
                    /\ appended' = <<>>
                    /\ result' = Ret("Ok", 0)
                    /\ call' = [NoCall EXCEPT
                                 !.op = "create", !.onKind = "write",
                                 !.status = ARCHIVE_OK,
                                 !.steps = <<"archive_write_new",
                                             "archive_write_set_format_filter_by_ext",
                                             "archive_write_open_filename">>]
  /\ yielded' = <<>> /\ hist' = NoHist
  /\ UNCHANGED <<platform, rd, held, entryLive, nAppend, nNext, wlog>>

(***************************************************************************)
(* Archive::append_file                                                    *)
(***************************************************************************)
\* positions a source file may be at when it is handed to append_file
StartPositions(content) ==
  {q \in 0..1 : q <= Len(content) /\ (q = 0 \/ Len(content) = MaxLen)}

\* File::read(&mut buf) on a file holding `content`, read up to `pos`: the
\* number of bytes delivered (archive.rs:154); 0 is end of input, and also
\* what a read into an empty buffer delivers.
ReadLen(content, pos, bufSize) == Min(bufSize, Len(content) - pos)

\* archive.rs:153-165  the streaming loop.  `failAt` is the read call that
\* fails (0: none does), `n` counts the read calls made.  The value is the
\* outcome, the chunks handed to archive_write_data and the final position.
RECURSIVE StreamLoop(_, _, _, _, _, _)
StreamLoop(content, pos, bufSize, failAt, n, chunks) ==
  IF failAt = n + 1
  THEN [ok |-> FALSE, chunks |-> chunks, pos |-> pos]
  ELSE LET nbytes == ReadLen(content, pos, bufSize) IN
       IF nbytes > 0
       THEN StreamLoop(content, pos + nbytes, bufSize, failAt, n + 1,
                       Append(chunks, SubSeq(content, pos + 1, pos + nbytes)))
       ELSE [ok |-> TRUE, chunks |-> chunks, pos |-> pos]

\* archive.rs:167  archive_entry_free(entry) is reached on this outcome
EntryFreedOn(outcome) == IF outcome = "ok" THEN 1 ELSE 0

\* a write log in which the data chunks of an append precede its header
WriteRequestsDataFirst(k, headerOk, nChunks) ==
  [i \in 1..nChunks |-> [op |-> "data", of |-> k]]
    \o <<[op |-> "header", of |-> k]>>

\* archive.rs:138-165  the write requests append number `k` sends to the
\* context once the source's metadata was obtained: archive_write_header
\* (138), then, when that reported ARCHIVE_OK, one archive_write_data per
\* chunk read (157-161)
WriteRequests(k, headerOk, nChunks) ==
  <<[op |-> "header", of |-> k]>>
    \o [i \in 1..(IF headerOk THEN nChunks ELSE 0) |-> [op |-> "data", of |-> k]]

\* archive.rs:119-171  Archive::append_file(path, file)
AppendFile ==
  /\ arch.state = "archive"
  /\ nAppend < MaxAppends
  /\ LET id == arch.underlying
         kind == ctx[id].kind
         base == [NoCall EXCEPT !.op = "append_file", !.onKind = kind,
                                !.afterRelease = (ctx[id].released > 0),
                                !.allocated = 1]
     IN
     \E p \in Paths :
       IF CStringNewFails(ToStringLossy(p))
       THEN \* CString::new(..).unwrap() panics (127), nothing was done yet
            /\ result' = Ret("panic", 0)
            /\ call' = [NoCall EXCEPT !.op = "append_file"]
            /\ UNCHANGED <<disk, ctx, entryLive, appended, nAppend, wlog>>
       ELSE
         /\ nAppend' = nAppend + 1
         /\ \/ \* file.metadata()? fails (132)
               /\ result' = ErrorFromIo("metadata failed")
               /\ call' = [base EXCEPT !.freed = EntryFreedOn("meta"),
                                       !.ioError = "metadata failed"]
               /\ entryLive' = entryLive + 1 - EntryFreedOn("meta")
               /\ UNCHANGED <<disk, ctx, appended, wlog>>
            \/ \* archive_write_header reports non-success (138-141)
               \E hdrSt \in NonOk :
               LET failed == [ctx[id] EXCEPT !.error = Diagnostic(kind)]
               IN
               /\ ctx' = [ctx EXCEPT ![id] = failed]
               /\ result' = ErrorFromArchive(failed)
               /\ call' = [base EXCEPT !.freed = EntryFreedOn("header"),
                                       !.hdrWrites = 1, !.status = hdrSt]
               /\ entryLive' = entryLive + 1 - EntryFreedOn("header")
               /\ wlog' = IF kind = "write"
                          THEN wlog \o WriteRequests(nAppend + 1, FALSE, 0)
                          ELSE wlog
               /\ UNCHANGED <<disk, appended>>
            \/ \* the header was written: the data is streamed (143-165)
               \E content \in Contents,
                  bufSize \in {BlockSizeOf(platform, blk) : blk \in BlkSizes} :
               \E pos \in StartPositions(content) :
               \E failAt \in 0..(Len(content) - pos + 1) :
               \E wdFails \in
                    IF StreamLoop(content, pos, bufSize, failAt, 0, <<>>).chunks
                         = <<>>
                    THEN {FALSE} ELSE BOOLEAN :
                 LET loop == StreamLoop(content, pos, bufSize, failAt, 0, <<>>)
                     outcome == IF loop.ok THEN "ok" ELSE "read"
                 IN
                 /\ disk' = IF kind = "write"
                            THEN [disk EXCEPT !.entries =
                                    Append(@, ToStringLossy(p))]
                            ELSE disk
                 /\ call' = [base EXCEPT !.freed = EntryFreedOn(outcome),
                                         !.hdrWrites = 1,
                                         !.status = ARCHIVE_OK,
                                         !.src = content, !.startPos = pos,
                                         !.endPos = loop.pos,
                                         !.bufSize = bufSize,
                                         !.chunks = loop.chunks,
                                         !.wdFailed = (wdFails /\ loop.chunks # <<>>),
                                         !.failedRead =
                                           IF loop.ok THEN 0 ELSE failAt,
                                         !.ioError =
                                           IF loop.ok THEN "" ELSE "read failed"]
                 /\ entryLive' = entryLive + 1 - EntryFreedOn(outcome)
                 /\ wlog' = IF kind = "write"
                            THEN wlog \o WriteRequests(nAppend + 1, TRUE,
                                                       Len(loop.chunks))
                            ELSE wlog
                 /\ UNCHANGED ctx
                 /\ IF outcome = "read"
                    THEN \* file.read(&mut buf)? fails (154)
                         /\ result' = ErrorFromIo("read failed")
                         /\ UNCHANGED appended
                    ELSE /\ result' = Ret("Ok", 0)
                         /\ appended' = IF kind = "write" THEN Append(appended, p)
                                        ELSE appended
  /\ UNCHANGED <<platform, nctx, arch, rd, held, nNext, yielded, hist>>

(***************************************************************************)
(* Archive::block_size, Archive::entries, IntoIterator, Drop               *)
(***************************************************************************)
\* archive.rs:173-175  Archive::block_size(&self)
BlockSize ==
  /\ arch.state = "archive"
  /\ result' = Ret("Value", arch.block_size)
  /\ call' = [NoCall EXCEPT !.op = "block_size"]
  /\ UNCHANGED <<platform, disk, ctx, nctx, arch, rd, held, entryLive, nAppend,
                 nNext, appended, yielded, hist, wlog>>

\* archive.rs:177-179, 196-203, 210-217  Archive::entries(self) and
\* into_iter(self): Entries::new moves the Archive into an Entries whose
\* current record is null
EntriesOf ==
  /\ arch.state = "archive"
  /\ arch' = [arch EXCEPT !.state = "entries", !.current = 0]
  /\ result' = Ret("Entries", 0)
  /\ call' = [NoCall EXCEPT !.op = "entries", !.onKind = ctx[arch.underlying].kind]
  /\ yielded' = <<>> /\ hist' = NoHist /\ wlog' = <<>>
  /\ UNCHANGED <<platform, disk, ctx, nctx, rd, held, entryLive, nAppend, nNext,
                 appended>>

\* a Drop that releases every context as a read context
ReleaseCallReadOnly(close_read) == "archive_read_free"

\* archive.rs:184-192  the release call Drop selects from close_read
ReleaseCall(close_read) ==
  IF close_read THEN "archive_read_free" ELSE "archive_write_free"

\* archive.rs:182-194  impl Drop for Archive; dropping an Entries drops the
\* Archive it owns (205-208)
Drop ==
  /\ arch.state \in {"archive", "entries"}
  /\ LET id == arch.underlying IN
       /\ ctx' = [ctx EXCEPT ![id] = [@ EXCEPT !.owner = "dropped",
                                               !.released = @ + 1,
                                               !.relBy = ReleaseCall(arch.close_read),
                                               !.error = ""]]
       /\ call' = [NoCall EXCEPT !.op = "drop", !.onKind = ctx[id].kind,
                                 !.afterRelease = (ctx[id].released > 0)]
  /\ arch' = NoArch
  /\ rd' = NoRd
  /\ result' = Ret("none", 0)
  /\ yielded' = <<>> /\ hist' = NoHist /\ wlog' = <<>>
  /\ UNCHANGED <<platform, disk, nctx, held, entryLive, appended, nAppend, nNext>>

(***************************************************************************)
(* Entries::next and Entry                                                 *)
(***************************************************************************)
\* The statuses archive_read_next_header can report on context `id`
\* (archive.rs:224-227).  On a read context: ARCHIVE_OK or ARCHIVE_WARN (-20)
\* deliver the next stored header, ARCHIVE_EOF (1) is reported once all were
\* delivered, ARCHIVE_FATAL (-30) at any time and from then on.  A write
\* context has no read-next-header operation: the call is undefined
\* behaviour, and what comes back may be ARCHIVE_OK as well as a failure.
NextHeaderStatuses(id) ==
  IF ctx[id].kind = "write" THEN {ARCHIVE_OK, -30}
  ELSE IF rd.fatal THEN {-30}
  ELSE IF rd.pos < Len(rd.entries) THEN {ARCHIVE_OK, -20, -30}
  ELSE {1, -30}

\* the engine's read state after archive_read_next_header reported `st`: a
\* delivered header overwrites the one entry record the context reuses
AfterNextHeader(id, st) ==
  IF ctx[id].kind = "write" THEN rd
  ELSE IF st \in {ARCHIVE_OK, -20}
       THEN [rd EXCEPT !.pos = @ + 1, !.gen = @ + 1,
                       !.record = rd.entries[rd.pos + 1]]
  ELSE IF st = -30 THEN [rd EXCEPT !.fatal = TRUE]
  ELSE rd

\* a match that yields an Entry for every status that is not negative
NextYieldsNonNegative(st) == st >= 0

\* archive.rs:229-239  the match on the status: Some(Entry) or None
NextYields(st) == st = 0

\* archive.rs:219-242  Entries::next(&mut self).  The caller either keeps the
\* Entry it got or reads its path at once and lets it go.
NextEntry ==
  /\ arch.state = "entries"
  /\ nNext < MaxNext
  /\ LET id == arch.underlying IN
     \E st \in NextHeaderStatuses(id), keep \in BOOLEAN :
       LET rd2 == AfterNextHeader(id, st)
           delivered == ctx[id].kind = "read" /\ rd2.gen # rd.gen
           current == IF delivered THEN id ELSE arch.current
           entry == [archive |-> id, underlying |-> current, gen |-> rd2.gen]
       IN
       /\ rd' = rd2
       /\ arch' = [arch EXCEPT !.current = current]
       /\ call' = [NoCall EXCEPT !.op = "next", !.onKind = ctx[id].kind,
                                 !.afterRelease = (ctx[id].released > 0),
                                 !.status = st,
                                 !.steps = <<"archive_read_next_header">>,
                                 !.entryArchive =
                                   IF NextYields(st) THEN entry.archive ELSE 0,
                                 !.entryUnderlying =
                                   IF NextYields(st) THEN entry.underlying ELSE 0]
       /\ IF NextYields(st)
          THEN /\ result' = Ret("Some", 0)
               /\ yielded' = Append(yielded, rd2.record)
               /\ held' = IF keep /\ Cardinality(held) < MaxHeld
                          THEN held \cup {entry} ELSE held
          ELSE /\ result' = Ret("None", 0)
               /\ UNCHANGED <<yielded, held>>
       /\ hist' = [sawNone |-> hist.sawNone \/ ~NextYields(st),
                   someAfterNone |-> hist.someAfterNone
                                       \/ (hist.sawNone /\ NextYields(st)),
                   readFault |-> hist.readFault \/ st \in {-20, -30}]
  /\ nNext' = nNext + 1
  /\ UNCHANGED <<platform, disk, ctx, nctx, entryLive, nAppend, appended, wlog>>

\* Entry::path(&self) reads the pathname of the record the Entry refers to.
\* The record belongs to the context: it is gone once the context is
\* released, and it holds another entry's header once next() delivered one.
EntryPath ==
  /\ \E e \in held :
       /\ call' = [NoCall EXCEPT !.op = "path", !.onKind = ctx[e.archive].kind,
                                 !.dangling = (ctx[e.archive].released > 0),
                                 !.stale = (ctx[e.archive].released = 0
                                            /\ e.gen # rd.gen)]
       /\ result' = Ret("Value", 0)
  /\ UNCHANGED <<platform, disk, ctx, nctx, arch, rd, held, entryLive, nAppend,
                 nNext, appended, yielded, hist, wlog>>

\* the caller lets go of an Entry it kept
DropEntry ==
  /\ \E e \in held : held' = held \ {e}
  /\ call' = [NoCall EXCEPT !.op = "drop_entry"]
  /\ result' = Ret("none", 0)
  /\ UNCHANGED <<platform, disk, ctx, nctx, arch, rd, entryLive, nAppend,
                 nNext, appended, yielded, hist, wlog>>

Next ==
  \/ Open
  \/ Stdin
  \/ Create
  \/ AppendFile
  \/ BlockSize
  \/ EntriesOf
  \/ NextEntry
  \/ EntryPath
  \/ DropEntry
  \/ Drop

Spec == Init /\ [][Next]_vars

(***************************************************************************)
(* Properties.                                                             *)
(***************************************************************************)
ReleaseFor(kind) ==
  IF kind = "read" THEN "archive_read_free" ELSE "archive_write_free"

C1_Inv ==
  /\ \A id \in 1..MaxCtx :
       /\ ctx[id].released <= 1
       /\ ctx[id].owner = "live" =>
            /\ ctx[id].released = 0
            /\ arch.state # "none" /\ arch.underlying = id
       /\ ctx[id].owner = "dropped" =>
            /\ ctx[id].released = 1
            /\ ctx[id].relBy = ReleaseFor(ctx[id].kind)
       /\ ctx[id].released = 1 => ctx[id].owner = "dropped"
  /\ arch.state # "none" =>
       /\ ctx[arch.underlying].owner = "live"
       /\ arch.close_read = (ctx[arch.underlying].kind = "read")
  /\ call.op \in {"append_file", "next", "drop"} => ~call.afterRelease

C1_Step ==
  /\ (arch.state # "none" /\ arch'.state # "none") =>
       /\ arch'.close_read = arch.close_read
       /\ arch'.underlying = arch.underlying
  /\ \A id \in 1..MaxCtx :
       ctx'[id].released # ctx[id].released =>
         /\ arch.state # "none" /\ arch.underlying = id
         /\ arch'.state = "none"
  /\ (arch.state # "none" /\ arch'.state = "none") =>
       ctx'[arch.underlying].released = ctx[arch.underlying].released + 1

\* C1: the context of every Archive returned by open, stdin or create is
\* released exactly once, when the Archive (or the Entries owning it) is
\* dropped, by archive_read_free for open/stdin and by archive_write_free
\* for create; close_read never changes while the Archive lives, and no
\* operation of the Archive or the Entries targets a released context.
C1_ReleasedOnceByMode == [](C1_Inv) /\ [][C1_Step]_vars

\* an Archive from create and an Archive from open/stdin have both been dropped
C1_Witness ==
  /\ \E id \in 1..MaxCtx : ctx[id].owner = "dropped" /\ ctx[id].kind = "write"
  /\ \E id \in 1..MaxCtx : ctx[id].owner = "dropped" /\ ctx[id].kind = "read"
  /\ call.op = "drop"

\* C2: every append_file call frees the header record it allocated before
\* it returns, whatever the outcome, so no header record stays allocated.
C2_HeaderRecordReleased ==
  /\ call.op = "append_file" => call.freed = call.allocated
  /\ entryLive = 0

\* C3: entries() and next() on an Archive from create are rejected with an
\* error; they never produce an iterator that ends without items.
C3_EntriesOnWriteRejected ==
  (call.op \in {"entries", "next"} /\ call.onKind = "write") => result.tag = "Err"

\* C4: append_file on an Archive from open or stdin returns an error and
\* issues neither a header write nor a data write on the read context.
C4_AppendOnReadRejected ==
  (call.op = "append_file" /\ call.onKind = "read") =>
    /\ result.tag = "Err"
    /\ call.hdrWrites = 0
    /\ call.chunks = <<>>

\* C5: no read of an Entry that came from a read-mode Archive touches an
\* entry record that a later next() has overwritten, nor a record of a
\* context that has been released.
C5_NoStaleEntryRead ==
  (call.op = "path" /\ call.onKind = "read") => (~call.stale /\ ~call.dangling)

\* C6: once next() has returned None on the Entries of a read-mode Archive,
\* every later next() on it returns None.
C6_ExhaustionSticky ==
  (arch.state = "entries" /\ arch.close_read) => ~hist.someAfterNone

\* C7: open on a path where there is no file fails with an Error of kind
\* LibArchive.
C7_OpenMissingIsEngineError ==
  (call.op = "open" /\ ~call.exists) =>
    (result.tag = "Err" /\ result.kind = "LibArchive")

\* C8: an append_file call during which archive_write_data reported a
\* failure returns an error.
C8_WriteDataFailureReported ==
  (call.op = "append_file" /\ call.wdFailed) => result.tag = "Err"

\* C9: when every header of the archive file was written by an append_file
\* call that returned Ok, and the engine delivers every stored header and
\* then reports the end of the archive, the paths read back are the paths
\* given to those append_file calls, in the same order.
C9_RoundTripPaths ==
  ( /\ arch.state = "entries" /\ rd.from = "open"
    /\ call.op = "next" /\ call.status = 1
    /\ ~hist.readFault
    /\ Len(disk.entries) = Len(appended) ) =>
  yielded = appended

RECURSIVE Concat(_)
Concat(chunks) ==
  IF chunks = <<>> THEN <<>> ELSE Head(chunks) \o Concat(Tail(chunks))

\* C10: an append_file call that returns Ok has handed the engine non-empty
\* chunks, none longer than the buffer, whose concatenation is the source
\* from its starting position to its end, and has read the source to its end.
C10_StreamsWholeSource ==
  (call.op = "append_file" /\ result.tag = "Ok") =>
    /\ \A i \in 1..Len(call.chunks) :
         Len(call.chunks[i]) > 0 /\ Len(call.chunks[i]) <= call.bufSize
    /\ Concat(call.chunks) = SubSeq(call.src, call.startPos + 1, Len(call.src))
    /\ call.endPos = Len(call.src)

\* C11: block_size() of every Archive is positive, is what the Archive was
\* constructed with, and is 65536 for an Archive from stdin or create.
C11_BlockSizePositive ==
  /\ arch.state # "none" =>
       /\ arch.block_size > 0
       /\ (rd.from = "stdin" \/ ~arch.close_read) =>
            arch.block_size = DEFAULT_BLOCK_SIZE
  /\ call.op = "block_size" =>
       (result.value = arch.block_size /\ result.value > 0)

\* C12: an append_file call whose header write reports non-success returns
\* an Error of kind LibArchive carrying the diagnostic string of the
\* Archive's context, and has written no data chunk; a call in which a read
\* of the source fails returns an Error of kind Io carrying the message of
\* the I/O failure, and has written only the chunks read before that read.
C12_AppendFailureKinds ==
  call.op = "append_file" =>
    /\ (call.hdrWrites = 1 /\ call.status # ARCHIVE_OK) =>
         /\ result.tag = "Err" /\ result.kind = "LibArchive"
         /\ result.message = ctx[arch.underlying].error
         /\ result.message # ""
         /\ call.chunks = <<>>
    /\ call.failedRead > 0 =>
         /\ result.tag = "Err" /\ result.kind = "Io"
         /\ result.message = call.ioError
         /\ Len(call.chunks) = call.failedRead - 1
    /\ (result.tag = "Err" /\ call.hdrWrites = 1 /\ call.status = ARCHIVE_OK) =>
         call.failedRead > 0

\* a header write has failed on a write-mode Archive
C12_WitnessHeader ==
  /\ call.op = "append_file" /\ call.onKind = "write"
  /\ call.hdrWrites = 1 /\ call.status # ARCHIVE_OK
  /\ result.kind = "LibArchive"

\* a read of the source has failed after a chunk was written
C12_WitnessRead ==
  /\ call.op = "append_file" /\ call.onKind = "write"
  /\ call.failedRead = 2 /\ Len(call.chunks) = 1
  /\ result.kind = "Io"

\* C13: each next() issues exactly one read-next-header request on the
\* Archive's context and returns Some(Entry) exactly when the status is 0;
\* the Entry refers to that context and to the record just read; so the
\* entries yielded up to the first None are the first K stored entries, in
\* order, K being the number of successes before the first non-success.
C13_NextYieldsIffOk ==
  /\ call.op = "next" =>
       /\ call.steps = <<"archive_read_next_header">>
       /\ result.tag \in {"Some", "None"}
       /\ (result.tag = "Some") <=> (call.status = ARCHIVE_OK)
       /\ result.tag = "Some" =>
            /\ call.entryArchive = arch.underlying
            /\ call.entryUnderlying = arch.current
            /\ call.onKind = "read" =>
                 /\ yielded # <<>>
                 /\ yielded[Len(yielded)] = rd.record
                 /\ rd.record = rd.entries[rd.pos]
  /\ (arch.state = "entries" /\ ctx[arch.underlying].kind = "read") =>
       /\ ~hist.sawNone => Len(yielded) = rd.pos
       /\ ~hist.someAfterNone =>
            /\ Len(yielded) <= Len(rd.entries)
            /\ yielded = SubSeq(rd.entries, 1, Len(yielded))

\* an iteration over a read-mode Archive yielded an entry and then None
C13_Witness ==
  /\ call.op = "next" /\ call.onKind = "read"
  /\ result.tag = "None" /\ call.status # ARCHIVE_OK
  /\ ~hist.someAfterNone
  /\ Len(yielded) >= 1

\* the engine calls of a successful create, in the order of archive.rs:56-71
CreateSteps ==
  <<"archive_write_new", "archive_write_set_format_filter_by_ext",
    "archive_write_open_filename">>

\* C14: create issues allocate, select-format-by-extension, open-for-writing
\* in that order and stops at the first failing one with an Error of kind
\* LibArchive and no Archive; it returns a write-mode Archive of block size
\* 65536 only when all three succeeded.  open and stdin return a read-mode
\* Archive only when allocation and the open call succeeded, and an Error
\* of kind LibArchive otherwise.
C14_ConstructorSteps ==
  /\ call.op = "create" =>
       /\ call.steps # <<>>
       /\ call.steps = SubSeq(CreateSteps, 1, Len(call.steps))
       /\ (result.tag = "Ok") <=>
            (call.steps = CreateSteps /\ call.status = ARCHIVE_OK)
       /\ result.tag = "Ok" =>
            /\ arch.state = "archive" /\ ~arch.close_read
            /\ arch.block_size = DEFAULT_BLOCK_SIZE
       /\ result.tag # "Ok" =>
            /\ result.tag = "Err" /\ result.kind = "LibArchive"
            /\ arch.state = "none"
  /\ call.op \in {"open", "stdin"} =>
       /\ result.tag = "Ok" =>
            /\ arch.state = "archive" /\ arch.close_read
            /\ Len(call.steps) = 4
            /\ call.steps[1] = "archive_read_new"
            /\ call.steps[4] = "archive_read_open_filename"
            /\ call.status = ARCHIVE_OK
       /\ result.tag # "Ok" =>
            /\ result.tag = "Err" /\ result.kind = "LibArchive"
            /\ arch.state = "none"

\* C15: every context that was allocated either belongs to a live Archive
\* or has been released exactly once; in particular a context allocated by
\* an open, stdin or create that failed has been released.
C15_FailedConstructionReleases ==
  \A i \in 1..MaxCtx :
    ctx[i].kind # "none" =>
      \/ ctx[i].owner = "live" /\ ctx[i].released = 0
      \/ ctx[i].owner # "live" /\ ctx[i].released = 1

\* the write requests of each append are one header followed by its data,
\* and the appends follow one another without interleaving
C16_LogInv ==
  /\ \A i \in 1..Len(wlog) :
       /\ (wlog[i].op = "header") <=> (i = 1 \/ wlog[i - 1].of # wlog[i].of)
       /\ i > 1 => wlog[i - 1].of <= wlog[i].of
  /\ (call.op = "append_file" /\ call.ioError = "metadata failed") =>
       (call.hdrWrites = 0 /\ call.chunks = <<>>)

\* an append_file that could not obtain the source's metadata sends no write
\* request and leaves the archive as it was
C16_Step ==
  (call'.op = "append_file" /\ call'.ioError = "metadata failed") =>
    (wlog' = wlog /\ disk' = disk)

====
